---------------------------- MODULE Spec2Model ----------------------------
(***************************************************************************)
(* A model of locksmith's query oracle (crates/locksmith): the Introspector,*)
(* the Locker, the StatementExecutor and QueryOracle::inspect_statement,    *)
(* together with the part of the PostgreSQL server they talk to: the        *)
(* committed catalog, the lock table (pg_locks) and the server backends of  *)
(* the sessions, including backends whose client has gone away.             *)
(***************************************************************************)
EXTENDS Integers, Sequences, FiniteSets, TLC

(***************************************************************************)
(* Bounds of the model.                                                     *)
(***************************************************************************)
\* most lock requests of a candidate statement and its COMMIT together
MaxStmtLen == 2
\* the ghost iteration counter saturates here
MaxIter == 3
\* how often the best-effort cancel of attempt_termination may fail
MaxCancelFailures == 1
\* how many times inspect_statement is invoked on the same database
MaxCalls == 2

(***************************************************************************)
(* Names.  A name is a sequence of characters, so that quoting is computed. *)
(***************************************************************************)
PlainChars == {"a", "b", "c", "o", "t"}

\* names that are reserved words of the SQL grammar
ReservedKeywords == { <<"t", "o">> }

\* the name a candidate statement may give to a table it creates
NewTableName == <<"c">>

TableObject(n) == [name |-> n]

\* PostgreSQL's quote_ident, as applied by relation::regclass::text: a name
\* that is not all lower-case identifier characters, or that is a reserved
\* word, is wrapped in quotes.
regclass_text(n) ==
    IF (\A i \in DOMAIN n : n[i] \in PlainChars) /\ n \notin ReservedKeywords
    THEN n
    ELSE <<"\"">> \o n \o <<"\"">>

LowerCase(ch) == IF ch = "B" THEN "b" ELSE ch

\* the cast of table_name::text to the regclass that pg_relation_filenode
\* takes: an unquoted name is folded to lower case before it is looked up
regclass_in(n) == [i \in DOMAIN n |-> LowerCase(n[i])]

(***************************************************************************)
(* Lock modes.                                                              *)
(***************************************************************************)
\* a near miss of Lock_from: no mode name is recognized
Lock_from_unrecognized(value) == [variant |-> "Unknown", text |-> value]

RecognizedLocks ==
    { "AccessShareLock", "RowShareLock", "RowExclusiveLock",
      "ShareUpdateExclusiveLock", "ShareLock", "ShareRowExclusiveLock",
      "ExclusiveLock", "AccessExclusiveLock" }

\* a near miss of Lock_from: the mode names are compared without their case
Lock_from_any_case(value) ==
    IF value \in RecognizedLocks
    THEN [variant |-> value, text |-> ""]
    ELSE IF value = "accesssharelock"
    THEN [variant |-> "AccessShareLock", text |-> ""]
    ELSE [variant |-> "Unknown", text |-> value]

\* impl From<String> for Lock
Lock_from(value) ==
    IF value \in RecognizedLocks
    THEN [variant |-> value, text |-> ""]
    ELSE [variant |-> "Unknown", text |-> value]

TableLock(t, l) == [table |-> TableObject(t), lock |-> l]

\* The server's table-level lock conflict matrix, as the set of the modes
\* that conflict with a given mode.
ConflictsWith(m) ==
    CASE m = "AccessShareLock" -> {"AccessExclusiveLock"}
      [] m = "RowShareLock" -> {"ExclusiveLock", "AccessExclusiveLock"}
      [] m = "RowExclusiveLock" ->
            {"ShareLock", "ShareRowExclusiveLock", "ExclusiveLock",
             "AccessExclusiveLock"}
      [] m = "ShareUpdateExclusiveLock" ->
            {"ShareUpdateExclusiveLock", "ShareLock", "ShareRowExclusiveLock",
             "ExclusiveLock", "AccessExclusiveLock"}
      [] m = "ShareLock" ->
            {"RowExclusiveLock", "ShareUpdateExclusiveLock",
             "ShareRowExclusiveLock", "ExclusiveLock", "AccessExclusiveLock"}
      [] m = "ShareRowExclusiveLock" ->
            {"RowExclusiveLock", "ShareUpdateExclusiveLock", "ShareLock",
             "ShareRowExclusiveLock", "ExclusiveLock", "AccessExclusiveLock"}
      [] m = "ExclusiveLock" ->
            RecognizedLocks \ {"AccessShareLock"}
      [] OTHER -> RecognizedLocks

\* the modes candidate statements are drawn from
StmtModes == {"AccessShareLock", "AccessExclusiveLock"}

(***************************************************************************)
(* The catalog and the Introspector's view of it.                           *)
(* catalog: table name -> [file_node, data_type], the committed relations   *)
(* of the current schema; every table has one column id and one index pkey. *)
(***************************************************************************)
DBTable(n) == [kind |-> "Table", table |-> TableObject(n), name |-> n, data_type |-> <<>>]

DBColumn(n, c, ty) == [kind |-> "Column", table |-> TableObject(n), name |-> c, data_type |-> ty]

DBIndex(n, i) == [kind |-> "Index", table |-> TableObject(n), name |-> i, data_type |-> <<>>]

list_tables(cat) == { TableObject(n) : n \in DOMAIN cat }

list_columns(cat) ==
    { [table |-> TableObject(n), name |-> <<"i", "d">>, data_type |-> cat[n].data_type]
        : n \in DOMAIN cat }

list_indexes(cat) ==
    { [table |-> TableObject(n), name |-> <<"p", "k", "e", "y">>] : n \in DOMAIN cat }

\* Introspector::list_objects
list_objects(cat) ==
    { DBTable(t.name) : t \in list_tables(cat) }
      \cup { DBColumn(c.table.name, c.name, c.data_type) : c \in list_columns(cat) }
      \cup { DBIndex(i.table.name, i.name) : i \in list_indexes(cat) }

\* the query of list_object_file_nodes raises "relation does not exist" when
\* a folded table name names no relation
file_nodes_query_ok(cat) == \A n \in DOMAIN cat : regclass_in(n) \in DOMAIN cat

\* Introspector::list_object_file_nodes: the map from each table's DBObject
\* to its file node
list_object_file_nodes(cat) ==
    [o \in { DBTable(n) : n \in DOMAIN cat } |-> cat[regclass_in(o.name)].file_node]

(***************************************************************************)
(* Candidate statements.  A statement is what the server does with it: a    *)
(* sequence of operations, each requesting one table lock, and the lock     *)
(* requests its COMMIT makes.                                               *)
(*   lock t m      request mode m on t             (SELECT, LOCK TABLE ...) *)
(*   drop t        AccessExclusiveLock on t, then remove t     (DROP TABLE) *)
(*   alter_type t  AccessExclusiveLock on t, column id becomes bigint and   *)
(*                 the table is rewritten (ALTER COLUMN id TYPE bigint)     *)
(*   create t      a new table t, locked by its creator      (CREATE TABLE) *)
(***************************************************************************)
LockOp(t, m) == [kind |-> "lock", table |-> t, mode |-> m]

DdlOp(k, t) == [kind |-> k, table |-> t, mode |-> "AccessExclusiveLock"]

\* the lock requests on the tables T
LockOps(T) == { LockOp(t, m) : t \in T, m \in StmtModes }

\* the operations on the tables T, and the creation of a table
StmtOps(T) ==
    LockOps(T) \cup { DdlOp(k, t) : k \in {"drop", "alter_type"}, t \in T }
      \cup { DdlOp("create", t) : t \in T \cup {NewTableName} }

SeqsUpTo(S, n) == UNION { [1..k -> S] : k \in 0..n }

\* the candidate statements over a schema's tables T
Statements(T) ==
    UNION { { [ops |-> o, commit_ops |-> c] :
                o \in [1..k -> StmtOps(T)],
                c \in SeqsUpTo(LockOps(T), MaxStmtLen - k) }
              : k \in 0..MaxStmtLen }

\* The effect of one operation on a catalog; next is the server's next unused
\* file node.
ApplyOp(st, op) ==
    CASE op.kind = "drop" ->
            [cat |-> [n \in DOMAIN st.cat \ {op.table} |-> st.cat[n]], next |-> st.next]
      [] op.kind = "create" ->
            [cat |-> [n \in DOMAIN st.cat \cup {op.table} |->
                        IF n = op.table
                        THEN [file_node |-> st.next, data_type |-> <<"integer">>]
                        ELSE st.cat[n]],
             next |-> st.next + 1]
      [] op.kind = "alter_type" /\ op.table \in DOMAIN st.cat
            /\ st.cat[op.table].data_type # <<"bigint">> ->
            [cat |-> [st.cat EXCEPT ![op.table] =
                        [file_node |-> st.next, data_type |-> <<"bigint">>]],
             next |-> st.next + 1]
      [] OTHER -> st

RECURSIVE ApplyOps(_, _, _)
\* the first k operations of ops applied in order
ApplyOps(st, ops, k) ==
    IF k = 0 THEN st ELSE ApplyOp(ApplyOps(st, ops, k - 1), ops[k])

RECURSIVE FreshTables(_, _)
\* the tables the first k operations created and did not drop again: they
\* are visible to the creating transaction only
FreshTables(ops, k) ==
    IF k = 0 THEN {}
    ELSE CASE ops[k].kind = "create" -> FreshTables(ops, k - 1) \cup {ops[k].table}
           [] ops[k].kind = "drop" -> FreshTables(ops, k - 1) \ {ops[k].table}
           [] OTHER -> FreshTables(ops, k - 1)

\* whether an operation can run against the tables its transaction sees
Executable(tables, op) ==
    IF op.kind = "create" THEN op.table \notin tables ELSE op.table \in tables

(***************************************************************************)
(* State.                                                                   *)
(***************************************************************************)
VARIABLES
    stmt,                     \* the candidate statement (an input)
    catalog,                  \* server: the committed tables of the schema
    next_node,                \* server: the next unused file node
    locker,                   \* the Locker session of this iteration
    executor,                 \* the StatementExecutor's backend of this iteration
    zombies,                  \* other backends: of dropped executors, of outside sessions
    pc,                       \* where inspect_statement stands
    initial_objects,          \* inspect_statement's locals ...
    initial_table_file_nodes,
    all_detected_locks,
    new_objects,
    new_table_file_nodes,
    results,                  \* what each finished call returned
    iterations,               \* ghost: iterations begun in this call
    cancel_failures,          \* ghost: failed cancels so far
    new_locks,                \* what list_connection_locks returned last
    last_message,             \* the last message the Executor's client read
    dropped,                  \* ghost: the sessions the last scope exit dropped
    table_order               \* the order in which iterating all_tables yields its tables

vars ==
    << stmt, catalog, next_node, locker, executor, zombies, pc, initial_objects,
       initial_table_file_nodes, all_detected_locks, new_objects, new_table_file_nodes,
       results, iterations, cancel_failures, new_locks, last_message, dropped,
       table_order >>

NoLocker == [pid |-> 0, held |-> {}, todo |-> {}]

NoBackend == [pid |-> 0, phase |-> "none", pos |-> 0, granted |-> {}, waiting |-> {}]

\* InspectedStatement::default()
DefaultInspectedStatement ==
    [added_objects |-> {}, removed_objects |-> {}, locks |-> {}, rewrites |-> {}]

EmptyFileNodes == [o \in {} |-> 0]

\* no asynchronous message has been read
NoMessage == [kind |-> "None", text |-> <<>>]

InitialFileNode(n) == IF n = <<"a">> THEN 1 ELSE IF n = <<"b">> THEN 2 ELSE 3

\* one table, or two as in tests/test_schema.sql; the second one's name may
\* be mixed-case or a reserved word
InitialSchemas ==
    { {<<"a">>}, {<<"a">>, <<"b">>}, {<<"a">>, <<"B">>}, {<<"a">>, <<"t", "o">>} }

InitialCatalogs ==
    { [n \in S |-> [file_node |-> InitialFileNode(n), data_type |-> <<"integer">>]]
        : S \in InitialSchemas }

Init ==
    /\ catalog \in InitialCatalogs
    /\ stmt \in Statements(DOMAIN catalog)
    /\ next_node = 4
    /\ locker = NoLocker
    /\ executor = NoBackend
    /\ zombies = {}
    /\ pc = "start"
    /\ initial_objects = {}
    /\ initial_table_file_nodes = EmptyFileNodes
    /\ all_detected_locks = {}
    /\ new_objects = {}
    /\ new_table_file_nodes = EmptyFileNodes
    /\ results = <<>>
    /\ iterations = 0
    /\ cancel_failures = 0
    /\ new_locks = {}
    /\ last_message = NoMessage
    /\ dropped = <<>>
    /\ table_order = <<>>

(***************************************************************************)
(* The server's lock table.                                                 *)
(***************************************************************************)
\* pg_locks rows of a backend running the statement
BackendRows(b) ==
    { [pid |-> b.pid, relation |-> l.table, mode |-> l.mode, granted |-> TRUE,
       fresh |-> l.fresh] : l \in b.granted }
      \cup
    { [pid |-> b.pid, relation |-> l.table, mode |-> l.mode, granted |-> FALSE,
       fresh |-> l.fresh] : l \in b.waiting }

\* pg_locks rows of the Locker: LOCK TABLE ... IN ACCESS EXCLUSIVE MODE
LockerRows ==
    { [pid |-> locker.pid, relation |-> t.name, mode |-> "AccessExclusiveLock",
       granted |-> TRUE, fresh |-> FALSE] : t \in locker.held }

pg_locks == LockerRows \cup BackendRows(executor) \cup UNION { BackendRows(z) : z \in zombies }

UsedPids == ({locker.pid, executor.pid} \cup { z.pid : z \in zombies }) \ {0}

\* pg_backend_pid() of a new session
FreshPid == CHOOSE p \in 1..(Cardinality(UsedPids) + 1) : p \notin UsedPids

\* a near miss of MustWait: no lock ever conflicts
MustWait_never(pid, t, m) == FALSE

\* whether a request of mode m on relation t by backend pid must wait
MustWait(pid, t, m) ==
    \E r \in pg_locks :
        /\ r.pid # pid
        /\ r.granted
        /\ ~r.fresh
        /\ r.relation = t
        /\ r.mode \in ConflictsWith(m)

(***************************************************************************)
(* A server backend running the statement, then its COMMIT.                 *)
(***************************************************************************)
\* StatementExecutor::new: a session in an open transaction
NewBackend(pid) ==
    [pid |-> pid, phase |-> "stmt", pos |-> 1, granted |-> {}, waiting |-> {}]

\* a near miss of Settle: as in a session without BEGIN, the completed
\* statement goes on to commit by itself
Settle_autocommit(b) ==
    IF b.phase = "stmt" /\ b.pos > Len(stmt.ops)
    THEN [b EXCEPT !.phase = "commit", !.pos = 1]
    ELSE b

\* the statement is complete once its last operation is done
Settle(b) ==
    IF b.phase = "stmt" /\ b.pos > Len(stmt.ops) THEN [b EXCEPT !.phase = "idle"] ELSE b

\* the transaction is aborted: its locks are released
Aborted(b) == [b EXCEPT !.phase = "error", !.granted = {}, !.waiting = {}]

CurrentOps(b) == IF b.phase = "stmt" THEN stmt.ops ELSE stmt.commit_ops

\* how many of the statement's operations the backend's transaction has done
DoneOps(b) == IF b.phase = "stmt" THEN b.pos - 1 ELSE Len(stmt.ops)

\* the catalog as the backend's own transaction sees it
\* a near miss of TxnCatalog: the transaction's work is lost
TxnCatalog_without_effects(b) == [cat |-> catalog, next |-> next_node]

TxnCatalog(b) == ApplyOps([cat |-> catalog, next |-> next_node], stmt.ops, DoneOps(b))

Running(b) ==
    /\ b.phase \in {"stmt", "commit"}
    /\ b.pos <= Len(CurrentOps(b))

\* the backend's next operation: it fails, waits for its lock, or gets the
\* lock and goes on
BackendNext(b) ==
    LET op == CurrentOps(b)[b.pos]
        req == [table |-> op.table, mode |-> op.mode,
                fresh |-> op.kind = "create" \/ op.table \in FreshTables(stmt.ops, DoneOps(b))]
    IN  IF ~Executable(DOMAIN TxnCatalog(b).cat, op)
        THEN Aborted(b)
        ELSE IF ~req.fresh /\ MustWait(b.pid, op.table, op.mode)
        THEN [b EXCEPT !.waiting = {req}]
        ELSE Settle([b EXCEPT !.granted = @ \cup {req}, !.waiting = {}, !.pos = @ + 1])

\* COMMIT can complete: every lock request of the commit is granted
CanCommit(b) == b.phase = "commit" /\ b.pos > Len(stmt.commit_ops)

Committed(b) == [b EXCEPT !.phase = "committed", !.granted = {}, !.waiting = {}]

(***************************************************************************)
(* Locker::list_connection_locks: the pg_locks rows of one backend, joined  *)
(* with the committed pg_class rows of the schema's tables.                 *)
(***************************************************************************)
\* a near miss of list_connection_locks: every relation lock of the backend,
\* whether or not the Locker's session can see the relation
list_connection_locks_unjoined(connection_id) ==
    { TableLock(regclass_text(r.relation), Lock_from(r.mode)) :
        r \in { x \in pg_locks : x.pid = connection_id } }

\* a near miss of list_connection_locks: without WHERE l.pid = $1, the locks of
\* every session are listed
list_connection_locks_of_all(connection_id) ==
    { TableLock(regclass_text(r.relation), Lock_from(r.mode)) :
        r \in { x \in pg_locks : ~x.fresh /\ x.relation \in DOMAIN catalog } }

list_connection_locks(connection_id) ==
    { TableLock(regclass_text(r.relation), Lock_from(r.mode)) :
        r \in { x \in pg_locks :
                  /\ x.pid = connection_id
                  /\ ~x.fresh
                  /\ x.relation \in DOMAIN catalog } }

(***************************************************************************)
(* The server's deadlock detection: the wait-for graph of the sessions.      *)
(***************************************************************************)
\* the sessions a waiting backend waits for
BackendWaitsFor(b) ==
    { r.pid : r \in { x \in pg_locks :
                        /\ x.pid # b.pid
                        /\ x.granted
                        /\ ~x.fresh
                        /\ \E w \in b.waiting :
                              x.relation = w.table /\ x.mode \in ConflictsWith(w.mode) } }

\* the table lock_tables takes next: the iterator it is handed,
\* all_tables.difference(&known_locked_table), yields the tables in the
\* iteration order of all_tables
next_table == Head(SelectSeq(table_order, LAMBDA t : t \in locker.todo))

\* the sessions the Locker's LOCK TABLE may be waiting for
LockerWaitsFor ==
    { r.pid : r \in { x \in pg_locks :
                        /\ x.pid # locker.pid
                        /\ x.granted
                        /\ ~x.fresh
                        /\ locker.todo # {}
                        /\ x.relation = next_table.name } }

WaitsFor(p) ==
    IF p = 0 THEN {}
    ELSE IF p = locker.pid THEN LockerWaitsFor
    ELSE IF p = executor.pid THEN BackendWaitsFor(executor)
    ELSE UNION { BackendWaitsFor(z) : z \in { x \in zombies : x.pid = p } }

RECURSIVE ReachFrom(_, _)
ReachFrom(S, n) ==
    IF n = 0 THEN S ELSE ReachFrom(S \cup UNION { WaitsFor(p) : p \in S }, n - 1)

\* the deadlock check a backend runs after deadlock_timeout
InDeadlock(b) == b.pid \in ReachFrom(BackendWaitsFor(b), Cardinality(UsedPids))

\* the sessions that hold table t against the Locker's LOCK TABLE
LockTableWaitsFor(t) ==
    { r.pid : r \in { x \in pg_locks :
                        /\ x.pid # locker.pid
                        /\ x.granted
                        /\ ~x.fresh
                        /\ x.relation = t.name } }

\* the deadlock check the Locker's backend runs while its LOCK TABLE waits
LockTableInDeadlock(t) ==
    locker.pid \in ReachFrom(LockTableWaitsFor(t), Cardinality(UsedPids))

(***************************************************************************)
(* QueryOracle::inspect_statement.                                          *)
(***************************************************************************)
\* The orders in which iterating a HashSet may yield its elements: the set's
\* hasher is seeded at random when the set is created (RandomState), so any
\* order is possible, and it stays the same while the set is not changed.
iteration_orders(S) ==
    { order \in [1..Cardinality(S) -> S] :
        \A i, j \in DOMAIN order : i # j => order[i] # order[j] }

\* a near miss of all_tables: the set is derived from the schema as it is now
all_tables_of_current_schema == list_tables(catalog)

all_tables == { o.table : o \in { x \in initial_objects : x.kind = "Table" } }

known_locked_table == { l.table : l \in all_detected_locks }

tables_to_lock == all_tables \ known_locked_table


\* Near misses of the three differences below; the properties of the result
\* are required to tell each of them from the operator it resembles.
added_objects_undiffed(new, initial) == new

removed_objects_undiffed(new, initial) == initial

removed_objects_tables_only(new, initial) == { o \in initial \ new : o.kind = "Table" }

rewrites_unchanged_too(new_nodes, initial_nodes) ==
    DOMAIN new_nodes \cap DOMAIN initial_nodes

rewrites_created_too(new_nodes, initial_nodes) ==
    { table \in DOMAIN new_nodes :
        table \notin DOMAIN initial_nodes \/ initial_nodes[table] # new_nodes[table] }

rewrites_dropped_too(new_nodes, initial_nodes) ==
    { table \in DOMAIN initial_nodes :
        table \notin DOMAIN new_nodes \/ initial_nodes[table] # new_nodes[table] }

added_objects(new, initial) == new \ initial

removed_objects(new, initial) == initial \ new

rewrites(new_nodes, initial_nodes) ==
    { table \in DOMAIN new_nodes :
        table \in DOMAIN initial_nodes /\ initial_nodes[table] # new_nodes[table] }

Return(value) ==
    results' = Append(results, [ok |-> TRUE, value |-> value, error |-> ""])

\* a near miss of Fail: the error carries the locks detected so far
Fail_with_detected_locks(error) ==
    results' = Append(results, [ok |-> FALSE,
                                value |-> [DefaultInspectedStatement EXCEPT
                                               !.locks = all_detected_locks],
                                error |-> error])

\* the ? operator: inspect_statement returns the error, with its message
Fail(error) ==
    results' = Append(results, [ok |-> FALSE, value |-> DefaultInspectedStatement,
                                error |-> error])

Reverse(s) == [i \in 1..Len(s) |-> s[Len(s) + 1 - i]]

\* a near miss of drop_order: the locals are dropped as they were declared
drop_order_as_declared(declared) == declared

\* the locals of a scope are dropped in the reverse order of their declaration
drop_order(declared) == Reverse(declared)

Inc(n) == IF n < MaxIter THEN n + 1 ELSE n

\* let initial_objects = introspector.list_objects(), and all_tables is
\* collected from it into a HashSet
ListInitialObjects ==
    /\ pc = "start"
    /\ initial_objects' = list_objects(catalog)
    /\ table_order' \in iteration_orders(list_tables(catalog))
    /\ pc' = "start_nodes"
    /\ UNCHANGED << stmt, last_message, new_locks, dropped,
                    catalog, next_node, locker, executor, zombies,
                    initial_table_file_nodes, all_detected_locks, new_objects,
                    new_table_file_nodes, results, iterations, cancel_failures >>

\* let initial_table_file_nodes = introspector.list_object_file_nodes()
ListInitialFileNodes ==
    /\ pc = "start_nodes"
    /\ IF file_nodes_query_ok(catalog)
       THEN /\ initial_table_file_nodes' = list_object_file_nodes(catalog)
            /\ pc' = "loop"
            /\ UNCHANGED results
       ELSE /\ pc' = "failed"
            /\ Fail("Listing object file nodes")
            /\ UNCHANGED initial_table_file_nodes
    /\ UNCHANGED << stmt, table_order, last_message, new_locks, dropped,
                    catalog, next_node, locker, executor, zombies,
                    initial_objects, all_detected_locks, new_objects,
                    new_table_file_nodes, iterations, cancel_failures >>

\* top of the loop: Locker::new, and lock_tables is handed tables_to_lock
BeginIteration ==
    /\ pc = "loop"
    /\ locker' = [pid |-> FreshPid, held |-> {}, todo |-> tables_to_lock]
    /\ iterations' = Inc(iterations)
    /\ pc' = "locking"
    /\ UNCHANGED << stmt, table_order, last_message, new_locks, dropped,
                    catalog, next_node, executor, zombies, initial_objects,
                    initial_table_file_nodes, all_detected_locks, new_objects,
                    new_table_file_nodes, results, cancel_failures >>

\* a near miss of LockTable: a LOCK TABLE that fails is passed over and
\* lock_tables goes on with the remaining tables
LockTable_skipping_failed(t) ==
    /\ pc = "locking"
    /\ t \in locker.todo
    /\ t = next_table
    /\ IF t.name \notin DOMAIN catalog
       THEN locker' = [locker EXCEPT !.todo = @ \ {t}]
       ELSE \/ /\ ~MustWait(locker.pid, t.name, "AccessExclusiveLock")
               /\ locker' = [locker EXCEPT !.held = @ \cup {t}, !.todo = @ \ {t}]
            \/ /\ MustWait(locker.pid, t.name, "AccessExclusiveLock")
               /\ LockTableInDeadlock(t)
               /\ locker' = [locker EXCEPT !.todo = @ \ {t}]
    /\ UNCHANGED << stmt, table_order, last_message, new_locks, dropped, pc, results,
                    catalog, next_node, executor, zombies, initial_objects,
                    initial_table_file_nodes, all_detected_locks, new_objects,
                    new_table_file_nodes, iterations, cancel_failures >>

\* lock_tables: LOCK TABLE on the next table, in the order the set yields
\* them.  A held lock makes it wait.  The query fails for a table that is
\* gone, and when the wait is part of a deadlock and the server's detector
\* aborts the Locker's query; lock_tables then returns the error at once, and
\* so does inspect_statement, which drops the Locker.
LockTable(t) ==
    /\ pc = "locking"
    /\ t \in locker.todo
    /\ t = next_table
    /\ IF t.name \notin DOMAIN catalog
       THEN /\ locker' = NoLocker
            /\ pc' = "failed"
            /\ Fail("relation does not exist")
            /\ dropped' = drop_order(<< "locker" >>)
       ELSE \/ /\ ~MustWait(locker.pid, t.name, "AccessExclusiveLock")
               /\ locker' = [locker EXCEPT !.held = @ \cup {t}, !.todo = @ \ {t}]
               /\ UNCHANGED << pc, results, dropped >>
            \/ /\ MustWait(locker.pid, t.name, "AccessExclusiveLock")
               /\ LockTableInDeadlock(t)
               /\ locker' = NoLocker
               /\ pc' = "failed"
               /\ Fail("deadlock detected")
               /\ dropped' = drop_order(<< "locker" >>)
    /\ UNCHANGED << stmt, table_order, last_message, new_locks,
                    catalog, next_node, executor, zombies, initial_objects,
                    initial_table_file_nodes, all_detected_locks, new_objects,
                    new_table_file_nodes, iterations, cancel_failures >>

\* a near miss of CreateExecutor: the Executor is not held back until
\* lock_tables has returned
CreateExecutor_before_locks ==
    /\ pc = "locking"
    /\ executor = NoBackend
    /\ executor' = Settle(NewBackend(FreshPid))
    /\ last_message' = NoMessage
    /\ pc' = IF locker.todo = {} THEN "stmt" ELSE pc
    /\ UNCHANGED << stmt, table_order, new_locks, dropped,
                    catalog, next_node, locker, zombies, initial_objects,
                    initial_table_file_nodes, all_detected_locks, new_objects,
                    new_table_file_nodes, results, iterations, cancel_failures >>

\* StatementExecutor::new, then the statement is sent
CreateExecutor ==
    /\ pc = "locking"
    /\ locker.todo = {}
    /\ executor' = Settle(NewBackend(FreshPid))
    /\ last_message' = NoMessage
    /\ pc' = "stmt"
    /\ UNCHANGED << stmt, table_order, new_locks, dropped,
                    catalog, next_node, locker, zombies, initial_objects,
                    initial_table_file_nodes, all_detected_locks, new_objects,
                    new_table_file_nodes, results, iterations, cancel_failures >>

\* the server runs the executor's next operation
ExecutorStep ==
    /\ Running(executor)
    /\ executor' = BackendNext(executor)
    /\ executor' # executor
    /\ UNCHANGED << stmt, table_order, last_message, new_locks, dropped,
                    catalog, next_node, locker, zombies, pc, initial_objects,
                    initial_table_file_nodes, all_detected_locks, new_objects,
                    new_table_file_nodes, results, iterations, cancel_failures >>

\* the server commits the executor's transaction
ExecutorCommit ==
    /\ CanCommit(executor)
    /\ catalog' = TxnCatalog(executor).cat
    /\ next_node' = TxnCatalog(executor).next
    /\ executor' = Committed(executor)
    /\ UNCHANGED << stmt, table_order, last_message, new_locks, dropped,
                    locker, zombies, pc, initial_objects,
                    initial_table_file_nodes, all_detected_locks, new_objects,
                    new_table_file_nodes, results, iterations, cancel_failures >>

\* a near miss of StatementCompleted: the locks the Executor holds when its
\* statement has completed are added to the detected locks as well
StatementCompleted_listing_too ==
    /\ pc = "stmt"
    /\ executor.phase = "idle"
    /\ executor' = [executor EXCEPT !.phase = "commit", !.pos = 1]
    /\ all_detected_locks' = all_detected_locks \cup list_connection_locks(executor.pid)
    /\ last_message' = NoMessage
    /\ pc' = "commit"
    /\ UNCHANGED << stmt, table_order, new_locks, dropped,
                    catalog, next_node, locker, zombies, initial_objects,
                    initial_table_file_nodes, new_objects,
                    new_table_file_nodes, results, iterations, cancel_failures >>

\* detect_if_statement_blocks(statement) returns false: COMMIT is sent next
StatementCompleted ==
    /\ pc = "stmt"
    /\ executor.phase = "idle"
    /\ executor' = [executor EXCEPT !.phase = "commit", !.pos = 1]
    /\ last_message' = NoMessage
    /\ pc' = "commit"
    /\ UNCHANGED << stmt, table_order, new_locks, dropped,
                    catalog, next_node, locker, zombies, initial_objects,
                    initial_table_file_nodes, all_detected_locks, new_objects,
                    new_table_file_nodes, results, iterations, cancel_failures >>

\* detect_if_statement_blocks("COMMIT;") returns false: is_blocked is false,
\* the loop is left and the executor and the locker are dropped
CommitCompleted ==
    /\ pc = "commit"
    /\ executor.phase = "committed"
    /\ executor' = NoBackend
    /\ locker' = NoLocker
    /\ dropped' = drop_order(<< "locker", "executor" >>)
    /\ pc' = "post"
    /\ UNCHANGED << stmt, table_order, last_message, new_locks,
                    catalog, next_node, zombies, initial_objects,
                    initial_table_file_nodes, all_detected_locks, new_objects,
                    new_table_file_nodes, results, iterations, cancel_failures >>

\* a "still waiting for" notice arrives: detect_if_statement_blocks returns
\* true and so does check_statement_for_locks
StatementBlocked ==
    /\ pc \in {"stmt", "commit"}
    /\ executor.waiting # {}
    /\ pc' = "list"
    /\ UNCHANGED << stmt, table_order, last_message, new_locks, dropped,
                    catalog, next_node, locker, executor, zombies,
                    initial_objects, initial_table_file_nodes, all_detected_locks,
                    new_objects, new_table_file_nodes, results, iterations,
                    cancel_failures >>

\* the statement or the COMMIT raised an error: inspect_statement returns it
StatementFailed ==
    /\ pc \in {"stmt", "commit"}
    /\ executor.phase = "error"
    /\ executor' = NoBackend
    /\ locker' = NoLocker
    /\ pc' = "failed"
    /\ dropped' = drop_order(<< "locker", "executor" >>)
    /\ Fail("Failed to execute statement")
    /\ UNCHANGED << stmt, table_order, last_message, new_locks,
                    catalog, next_node, zombies, initial_objects,
                    initial_table_file_nodes, all_detected_locks, new_objects,
                    new_table_file_nodes, iterations, cancel_failures >>

\* a near miss of ListConnectionLocks: the locks listed while the COMMIT is
\* blocked are kept apart from the statement's
ListConnectionLocks_statement_only ==
    /\ pc = "list"
    /\ new_locks' = list_connection_locks(executor.pid)
    /\ all_detected_locks' = IF executor.phase = "stmt"
                             THEN all_detected_locks \cup new_locks'
                             ELSE all_detected_locks
    /\ pc' = "terminate"
    /\ UNCHANGED << stmt, table_order, last_message, dropped,
                    catalog, next_node, locker, executor, zombies,
                    initial_objects, initial_table_file_nodes, new_objects,
                    new_table_file_nodes, results, iterations, cancel_failures >>

\* all_detected_locks.extend(locker.list_connection_locks(connection_id))
ListConnectionLocks ==
    /\ pc = "list"
    /\ new_locks' = list_connection_locks(executor.pid)
    /\ all_detected_locks' = all_detected_locks \cup new_locks'
    /\ pc' = "terminate"
    /\ UNCHANGED << stmt, table_order, last_message, dropped,
                    catalog, next_node, locker, executor, zombies,
                    initial_objects, initial_table_file_nodes, new_objects,
                    new_table_file_nodes, results, iterations, cancel_failures >>

\* executor.attempt_termination(), then the end of the loop body drops the
\* executor and the locker.  A cancel that worked ends the backend; after one
\* that failed the backend runs on without its client.
EndIteration(cancelled) ==
    /\ pc = "terminate"
    /\ IF cancelled \/ ~Running(executor)
       THEN UNCHANGED << zombies, cancel_failures >>
       ELSE /\ cancel_failures < MaxCancelFailures
            /\ cancel_failures' = cancel_failures + 1
            /\ zombies' = zombies \cup {executor}
    /\ executor' = NoBackend
    /\ locker' = NoLocker
    /\ new_locks' = {}
    /\ dropped' = drop_order(<< "locker", "executor" >>)
    /\ pc' = "loop"
    /\ UNCHANGED << stmt, table_order, last_message,
                    catalog, next_node, initial_objects,
                    initial_table_file_nodes, all_detected_locks, new_objects,
                    new_table_file_nodes, results, iterations >>

\* let new_objects = introspector.list_objects()
ListNewObjects ==
    /\ pc = "post"
    /\ new_objects' = list_objects(catalog)
    /\ pc' = "post_nodes"
    /\ UNCHANGED << stmt, table_order, last_message, new_locks, dropped,
                    catalog, next_node, locker, executor, zombies,
                    initial_objects, initial_table_file_nodes, all_detected_locks,
                    results, iterations, cancel_failures, new_table_file_nodes >>

\* let new_table_file_nodes = introspector.list_object_file_nodes(), and the
\* InspectedStatement is returned
ListNewFileNodes ==
    /\ pc = "post_nodes"
    /\ IF file_nodes_query_ok(catalog)
       THEN /\ new_table_file_nodes' = list_object_file_nodes(catalog)
            /\ Return([added_objects |-> added_objects(new_objects, initial_objects),
                       removed_objects |-> removed_objects(new_objects, initial_objects),
                       locks |-> all_detected_locks,
                       rewrites |-> rewrites(list_object_file_nodes(catalog),
                                             initial_table_file_nodes)])
            /\ pc' = "returned"
       ELSE /\ pc' = "failed"
            /\ Fail("Listing new table file nodes")
            /\ UNCHANGED new_table_file_nodes
    /\ UNCHANGED << stmt, table_order, last_message, new_locks, dropped,
                    catalog, next_node, locker, executor, zombies,
                    initial_objects, initial_table_file_nodes, all_detected_locks,
                    new_objects, iterations, cancel_failures >>

\* the caller invokes inspect_statement again, with the same statement
Reinvoke ==
    /\ pc \in {"returned", "failed"}
    /\ Len(results) < MaxCalls
    /\ pc' = "start"
    /\ initial_objects' = {}
    /\ initial_table_file_nodes' = EmptyFileNodes
    /\ all_detected_locks' = {}
    /\ new_objects' = {}
    /\ new_table_file_nodes' = EmptyFileNodes
    /\ iterations' = 0
    /\ dropped' = <<>>
    /\ UNCHANGED << stmt, table_order, last_message, new_locks,
                    catalog, next_node, locker, executor, zombies, results,
                    cancel_failures >>

(***************************************************************************)
(* Backends without a client.                                               *)
(***************************************************************************)
\* the backend runs its next operation; when its command is over it finds
\* the connection closed and rolls back
ZombieStep(z) ==
    /\ z \in zombies
    /\ Running(z)
    /\ BackendNext(z) # z
    /\ zombies' = IF BackendNext(z).phase \in {"idle", "error"}
                  THEN zombies \ {z}
                  ELSE (zombies \ {z}) \cup {BackendNext(z)}
    /\ UNCHANGED << stmt, table_order, last_message, new_locks, dropped,
                    catalog, next_node, locker, executor, pc, initial_objects,
                    initial_table_file_nodes, all_detected_locks, new_objects,
                    new_table_file_nodes, results, iterations, cancel_failures >>

\* the COMMIT it was blocked in completes
ZombieCommit(z) ==
    /\ z \in zombies
    /\ CanCommit(z)
    /\ catalog' = TxnCatalog(z).cat
    /\ next_node' = TxnCatalog(z).next
    /\ zombies' = zombies \ {z}
    /\ UNCHANGED << stmt, table_order, last_message, new_locks, dropped,
                    locker, executor, pc, initial_objects,
                    initial_table_file_nodes, all_detected_locks, new_objects,
                    new_table_file_nodes, results, iterations, cancel_failures >>

\* the deadlock detector aborts the executor's statement
ExecutorDeadlock ==
    /\ executor.waiting # {}
    /\ InDeadlock(executor)
    /\ executor' = Aborted(executor)
    /\ UNCHANGED << stmt, table_order, last_message, new_locks, dropped,
                    catalog, next_node, locker, zombies, pc, initial_objects,
                    initial_table_file_nodes, all_detected_locks, new_objects,
                    new_table_file_nodes, results, iterations, cancel_failures >>

\* the deadlock detector aborts a backend without a client
ZombieDeadlock(z) ==
    /\ z \in zombies
    /\ z.waiting # {}
    /\ InDeadlock(z)
    /\ zombies' = zombies \ {z}
    /\ UNCHANGED << stmt, table_order, last_message, new_locks, dropped,
                    catalog, next_node, locker, executor, pc, initial_objects,
                    initial_table_file_nodes, all_detected_locks, new_objects,
                    new_table_file_nodes, results, iterations, cancel_failures >>

Next ==
    \/ ListInitialObjects
    \/ ListInitialFileNodes
    \/ BeginIteration
    \/ \E t \in all_tables : LockTable(t)
    \/ CreateExecutor
    \/ ExecutorStep
    \/ ExecutorCommit
    \/ StatementCompleted
    \/ CommitCompleted
    \/ StatementBlocked
    \/ StatementFailed
    \/ ListConnectionLocks
    \/ \E cancelled \in BOOLEAN : EndIteration(cancelled)
    \/ ListNewObjects
    \/ ListNewFileNodes
    \/ \E z \in zombies : ZombieStep(z)
    \/ \E z \in zombies : ZombieCommit(z)
    \/ ExecutorDeadlock
    \/ \E z \in zombies : ZombieDeadlock(z)

Spec == Init /\ [][Next]_vars

\* The oracle's task runs whenever what it awaits is ready.  The server's lock
\* manager hands a released lock to a waiting backend, so a backend whose
\* request can be granted again and again is not starved.
OracleNext ==
    \/ ListInitialObjects
    \/ ListInitialFileNodes
    \/ BeginIteration
    \/ \E t \in all_tables : LockTable(t)
    \/ CreateExecutor
    \/ StatementCompleted
    \/ CommitCompleted
    \/ StatementBlocked
    \/ StatementFailed
    \/ ListConnectionLocks
    \/ \E cancelled \in BOOLEAN : EndIteration(cancelled)
    \/ ListNewObjects
    \/ ListNewFileNodes

ExecutorNext == ExecutorStep \/ ExecutorCommit \/ ExecutorDeadlock

ZombieNext == \E z \in zombies : ZombieStep(z) \/ ZombieCommit(z) \/ ZombieDeadlock(z)

SpecFair ==
    /\ Init /\ [][Next]_vars
    /\ WF_vars(OracleNext)
    /\ SF_vars(ExecutorNext)
    /\ SF_vars(ZombieNext)

\* inspect_statement invoked repeatedly
NextRepeat == Next \/ Reinvoke

SpecRepeat == Init /\ [][NextRepeat]_vars

\* inspect_statement invoked again on a copy of the pristine schema: the
\* schema is as it was at first and no session of the earlier call is left
ReinvokePristine ==
    /\ catalog \in InitialCatalogs
    /\ zombies = {}
    /\ Reinvoke

NextPristine == Next \/ ReinvokePristine

SpecPristine == Init /\ [][NextPristine]_vars

(***************************************************************************)
(* A session outside the oracle that holds a competing lock for a while, as *)
(* the Locker that tests::lock_tables returns does for a test.              *)
(***************************************************************************)
ExternalSession(pid, t) ==
    [pid |-> pid, phase |-> "external", pos |-> 0,
     granted |-> {[table |-> t, mode |-> "AccessExclusiveLock", fresh |-> FALSE]},
     waiting |-> {}]

\* LOCK TABLE t IN ACCESS EXCLUSIVE MODE by the outside session, granted once
\* the table is free, while the first call of inspect_statement is under way
ExternalLock(t) ==
    /\ Len(results) = 0
    /\ \A z \in zombies : z.phase # "external"
    /\ t \in DOMAIN catalog
    /\ ~MustWait(FreshPid, t, "AccessExclusiveLock")
    /\ zombies' = zombies \cup {ExternalSession(FreshPid, t)}
    /\ UNCHANGED << stmt, table_order, last_message, new_locks, dropped,
                    catalog, next_node, locker, executor, pc, initial_objects,
                    initial_table_file_nodes, all_detected_locks, new_objects,
                    new_table_file_nodes, results, iterations, cancel_failures >>

\* the outside session is dropped: its lock is released
ExternalRelease ==
    /\ \E z \in zombies : z.phase = "external" /\ zombies' = zombies \ {z}
    /\ UNCHANGED << stmt, table_order, last_message, new_locks, dropped,
                    catalog, next_node, locker, executor, pc, initial_objects,
                    initial_table_file_nodes, all_detected_locks, new_objects,
                    new_table_file_nodes, results, iterations, cancel_failures >>

\* a call with an outside lock holder, then a baseline call on the pristine
\* schema without one
NextExternal ==
    \/ NextPristine
    \/ \E t \in DOMAIN catalog : ExternalLock(t)
    \/ ExternalRelease

SpecExternal == Init /\ [][NextExternal]_vars

(***************************************************************************)
(* Locker::list_connection_locks on its own, as test_list_connection_locks  *)
(* calls it: sessions hold table locks, among them locks whose mode the     *)
(* server reports under a name the library does not know, and the locks of  *)
(* one connection id are listed.                                            *)
(***************************************************************************)
\* most table locks the sessions of the test hold together
MaxTestLocks == 2

\* the connection ids of the sessions of the test
TestPids == {1, 2}

\* the mode names a pg_locks row may carry: the eight table-level modes, and
\* names Lock::from does not recognize
ModeNames == RecognizedLocks \cup {"accesssharelock", "SIReadLock", "Unknown", ""}

\* impl Display for Lock: write!(f, "{self:?}"), the Debug form, as the
\* pieces of the string written
Lock_to_string(l) ==
    IF l.variant = "Unknown"
    THEN << "Unknown(", "\"", l.text, "\"", ")" >>
    ELSE << l.variant >>

TestSession(p) ==
    IF \E z \in zombies : z.pid = p
    THEN CHOOSE z \in zombies : z.pid = p
    ELSE [pid |-> p, phase |-> "external", pos |-> 0, granted |-> {}, waiting |-> {}]

\* the session with connection id p is granted mode m on table t
TestSessionLocks(p, t, m) ==
    /\ Cardinality(pg_locks) < MaxTestLocks
    /\ t \in DOMAIN catalog
    /\ ~MustWait(p, t, m)
    /\ zombies' = (zombies \ {TestSession(p)})
                    \cup {[TestSession(p) EXCEPT
                             !.granted = @ \cup {[table |-> t, mode |-> m, fresh |-> FALSE]}]}
    /\ UNCHANGED << stmt, table_order, last_message, new_locks, dropped,
                    catalog, next_node, locker, executor, pc, initial_objects,
                    initial_table_file_nodes, all_detected_locks, new_objects,
                    new_table_file_nodes, results, iterations, cancel_failures >>

\* let locks = locker.list_connection_locks(connection_id)
TestListConnectionLocks(p) ==
    /\ new_locks' = list_connection_locks(p)
    /\ UNCHANGED << stmt, table_order, last_message, dropped,
                    catalog, next_node, locker, executor, zombies, pc, initial_objects,
                    initial_table_file_nodes, all_detected_locks, new_objects,
                    new_table_file_nodes, results, iterations, cancel_failures >>

InitListing == Init /\ stmt = [ops |-> <<>>, commit_ops |-> <<>>]

NextListing ==
    \/ \E p \in TestPids, t \in DOMAIN catalog, m \in ModeNames : TestSessionLocks(p, t, m)
    \/ \E p \in TestPids : TestListConnectionLocks(p)

SpecListing == InitListing /\ [][NextListing]_vars

(***************************************************************************)
(* The Executor's connection: the asynchronous messages poll_message yields *)
(* while a query is pending, and the end of the connection.  The text of a  *)
(* message is the sequence of its words.                                    *)
(***************************************************************************)
Notice(text) == [kind |-> "Notice", text |-> text]

Notification(text) == [kind |-> "Notification", text |-> text]

\* str::contains
contains(text, pat) ==
    \E i \in 0..(Len(text) - Len(pat)) : SubSeq(text, i + 1, i + Len(pat)) = pat

\* The server's log line for a lock wait, sent to the client after
\* deadlock_timeout as a notice when log_lock_waits is on.
LockWaitNotice ==
    Notice(<< "process", "still", "waiting", "for", "AccessShareLock", "on", "relation" >>)

\* Messages the server may send while a query is pending: the log line for a
\* lock that was granted, another notice, a notification whose payload reads
\* like the lock-wait line, and the lock-wait line while the backend waits.
ServerMessages ==
    { Notice(<< "process", "acquired", "AccessShareLock" >>),
      Notice(<< "waiting", "for", "still" >>),
      Notification(<< "still", "waiting", "for" >>) }
      \cup (IF executor.waiting # {} THEN {LockWaitNotice} ELSE {})

\* a near miss of is_still_waiting_notice: the kind of the message is not
\* looked at
is_still_waiting_notice_any_kind(msg) ==
    contains(msg.text, << "still", "waiting", "for" >>)

\* if let AsyncMessage::Notice(msg) ... msg.message().contains("still waiting for")
is_still_waiting_notice(msg) ==
    /\ msg.kind = "Notice"
    /\ contains(msg.text, << "still", "waiting", "for" >>)

\* detect_if_statement_blocks polls a message: a lock-wait notice makes it
\* return true, and after any other message it goes on waiting
ReceiveMessage(msg) ==
    /\ pc \in {"stmt", "commit"}
    /\ executor.phase # "closed"
    /\ last_message' = msg
    /\ pc' = IF is_still_waiting_notice(msg) THEN "list" ELSE pc
    /\ UNCHANGED << stmt, table_order, new_locks, dropped,
                    catalog, next_node, locker, executor, zombies,
                    initial_objects, initial_table_file_nodes, all_detected_locks,
                    new_objects, new_table_file_nodes, results, iterations,
                    cancel_failures >>

\* the connection ends while StatementExecutor::new awaits the backend pid or
\* the setup batch
ConnectionClosesInNew ==
    /\ pc = "locking"
    /\ locker.todo = {}
    /\ executor' = [NewBackend(FreshPid) EXCEPT !.phase = "closed", !.pos = 0]
    /\ pc' = "new"
    /\ UNCHANGED << stmt, table_order, last_message, new_locks, dropped,
                    catalog, next_node, locker, zombies, initial_objects,
                    initial_table_file_nodes, all_detected_locks, new_objects,
                    new_table_file_nodes, results, iterations, cancel_failures >>

\* the connection ends while the statement or the COMMIT is pending: the
\* backend is gone and its transaction with it
ConnectionCloses ==
    /\ pc \in {"stmt", "commit"}
    /\ executor.phase \in {"stmt", "commit"}
    /\ executor' = [executor EXCEPT !.phase = "closed", !.granted = {}, !.waiting = {}]
    /\ UNCHANGED << stmt, table_order, last_message, new_locks, dropped,
                    catalog, next_node, locker, zombies, pc, initial_objects,
                    initial_table_file_nodes, all_detected_locks, new_objects,
                    new_table_file_nodes, results, iterations, cancel_failures >>

\* the errors with which the end of the connection is reported: the bail! of
\* StatementExecutor::new, and in detect_if_statement_blocks the bail! for the
\* end of the message stream or the error the stream yields
ConnectionErrors(at) ==
    IF at = "new"
    THEN { "Connection unexpectedly finished: retrieving connection ID",
           "Connection unexpectedly finished: executing setup statement" }
    ELSE { "Connection unexpectedly finished: executing statement",
           "Reading message from server" }

\* a near miss of ConnectionFinished: the end of the connection is taken for
\* the completion of the pending query
ConnectionFinished_as_completed(error) ==
    /\ pc \in {"new", "stmt", "commit"}
    /\ executor.phase = "closed"
    /\ error \in ConnectionErrors(pc)
    /\ executor' = NoBackend
    /\ locker' = NoLocker
    /\ dropped' = drop_order(<< "locker", "executor" >>)
    /\ pc' = "post"
    /\ UNCHANGED << stmt, table_order, last_message, new_locks,
                    catalog, next_node, zombies, initial_objects,
                    initial_table_file_nodes, all_detected_locks, new_objects,
                    new_table_file_nodes, results, iterations, cancel_failures >>

\* the select! arm of the connection: the pending operation fails and
\* inspect_statement returns the error
ConnectionFinished(error) ==
    /\ pc \in {"new", "stmt", "commit"}
    /\ executor.phase = "closed"
    /\ error \in ConnectionErrors(pc)
    /\ executor' = NoBackend
    /\ locker' = NoLocker
    /\ dropped' = IF pc = "new"
                  THEN drop_order(<< "locker" >>)
                  ELSE drop_order(<< "locker", "executor" >>)
    /\ pc' = "failed"
    /\ Fail(error)
    /\ UNCHANGED << stmt, table_order, last_message, new_locks,
                    catalog, next_node, zombies, initial_objects,
                    initial_table_file_nodes, all_detected_locks, new_objects,
                    new_table_file_nodes, iterations, cancel_failures >>

NextAsync ==
    \/ Next
    \/ \E msg \in ServerMessages : ReceiveMessage(msg)
    \/ ConnectionClosesInNew
    \/ ConnectionCloses
    \/ \E error \in ConnectionErrors("new") \cup ConnectionErrors("stmt") :
           ConnectionFinished(error)

SpecAsync == Init /\ [][NextAsync]_vars

(***************************************************************************)
(* Properties.                                                              *)
(***************************************************************************)
\* what the call that just finished returned
LastResult == results[Len(results)].value

\* the (table, mode) pairs the statement and its COMMIT request on tables
\* that are not the transaction's own creation
RequestedPairs ==
    { <<stmt.ops[i].table, stmt.ops[i].mode>> :
        i \in { j \in DOMAIN stmt.ops :
                  /\ stmt.ops[j].kind # "create"
                  /\ stmt.ops[j].table \notin FreshTables(stmt.ops, j - 1) } }
      \cup
    { <<stmt.commit_ops[i].table, stmt.commit_ops[i].mode>> :
        i \in { j \in DOMAIN stmt.commit_ops :
                  stmt.commit_ops[j].table \notin FreshTables(stmt.ops, Len(stmt.ops)) } }

\* C1: when inspect_statement returns Ok, every (table, lock mode) pair the
\* statement or its COMMIT requested on a table of the initial snapshot is a
\* member of result.locks.
C1_CompleteLockSet ==
    pc = "returned" =>
        \A r \in RequestedPairs :
            TableObject(r[1]) \in all_tables =>
                TableLock(r[1], Lock_from(r[2])) \in LastResult.locks

\* C2: the discovery loop terminates: under fair scheduling, a call whose
\* statement raises no error eventually returns a result.
C2_Terminates ==
    <>(pc = "returned" \/ pc = "failed" \/ executor.phase = "error")

\* C3: every iteration in which the Executor is reported blocked adds a table
\* to the tables occurring in detected_locks, and a call never begins more
\* than |all_tables| + 1 iterations, whatever the interleaving.
C3_BlockedIterationAddsTable ==
    [][ /\ (pc = "list" /\ pc' = "terminate") =>
               Cardinality(known_locked_table') > Cardinality(known_locked_table)
        /\ iterations' <= Cardinality(all_tables') + 1 ]_vars

\* C4: an iteration that finds the statement blocked while the listing shows
\* no table that was not already in detected_locks makes inspect_statement
\* fail (oracle_stuck); no further iteration is begun.
C4_StuckIterationFails ==
    [][ (/\ pc = "list"
         /\ pc' # "list"
         /\ known_locked_table' \subseteq known_locked_table) => pc' = "failed" ]_vars

\* C5: every lock in the set that inspect_statement accumulates and returns as
\* result.locks names a table of the initial snapshot, under the name the
\* Introspector gave it; no other table name ever enters the set.
C5_LocksOnInitialTables ==
    \A l \in all_detected_locks : l.table \in all_tables

\* C6: added_objects is the post-snapshot minus the initial snapshot and
\* removed_objects the initial snapshot minus the post-snapshot, the two are
\* disjoint, and the post-snapshot shows the schema as the COMMIT left it.
C6_AddedRemovedAreDifferences ==
    pc = "returned" =>
        /\ LastResult.added_objects = new_objects \ initial_objects
        /\ LastResult.removed_objects = initial_objects \ new_objects
        /\ LastResult.added_objects \cap LastResult.removed_objects = {}
        /\ cancel_failures = 0 => new_objects = list_objects(catalog)

C6_Witness ==
    /\ pc = "returned"
    /\ LastResult.added_objects # {}
    /\ LastResult.removed_objects # {}
    /\ cancel_failures = 0

\* C7: rewrites is exactly the set of tables that have a file node in both
\* file-node snapshots and whose two file nodes differ.
C7_RewritesAreChangedFileNodes ==
    pc = "returned" =>
        \A t \in DOMAIN initial_table_file_nodes \cup DOMAIN new_table_file_nodes :
            t \in LastResult.rewrites <=>
                /\ t \in DOMAIN initial_table_file_nodes
                /\ t \in DOMAIN new_table_file_nodes
                /\ initial_table_file_nodes[t] # new_table_file_nodes[t]

C7_Witness ==
    /\ pc = "returned"
    /\ LastResult.rewrites # {}
    /\ \E t \in DOMAIN initial_table_file_nodes \cap DOMAIN new_table_file_nodes :
           initial_table_file_nodes[t] = new_table_file_nodes[t]

RewritesInBothSnapshots ==
    \A t \in LastResult.rewrites :
        /\ t.kind = "Table"
        /\ t \in initial_objects
        /\ t \in new_objects
        /\ t \notin LastResult.added_objects
        /\ t \notin LastResult.removed_objects

\* the tables that the statement creates or drops
CreatedOrDropped ==
    { DBTable(stmt.ops[i].table) :
        i \in { j \in DOMAIN stmt.ops : stmt.ops[j].kind \in {"create", "drop"} } }

\* C8 (as stated): every element of rewrites is a Table of both object
\* snapshots, in neither added_objects nor removed_objects, and no table that
\* the statement creates or drops is in rewrites.
C8_NoCreatedOrDroppedTable ==
    pc = "returned" =>
        /\ RewritesInBothSnapshots
        /\ LastResult.rewrites \cap CreatedOrDropped = {}

\* C8 (amended): every element of rewrites is a Table of both object
\* snapshots, in neither added_objects nor removed_objects; a table that is
\* in only one of the snapshots is never in rewrites.
C8_RewritesAreSurvivingTables ==
    pc = "returned" =>
        /\ RewritesInBothSnapshots
        /\ \A t \in (initial_objects \ new_objects) \cup (new_objects \ initial_objects) :
               t \notin LastResult.rewrites

C8_Witness ==
    /\ pc = "returned"
    /\ LastResult.rewrites # {}
    /\ \E o \in LastResult.added_objects \cup LastResult.removed_objects :
           o.kind = "Table"

\* C9: a statement that requests no table lock is inspected in exactly one
\* iteration of the discovery loop and the result is the zero value.
C9_NoLockStatementIsZero ==
    (pc = "returned" /\ stmt.ops = <<>> /\ stmt.commit_ops = <<>>) =>
        /\ iterations = 1
        /\ LastResult = DefaultInspectedStatement

C9_Witness ==
    /\ pc = "returned"
    /\ stmt.ops = <<>>
    /\ stmt.commit_ops = <<>>
    /\ Cardinality(all_tables) = 2

\* a statement without DDL: it reads or locks tables and changes no object
NoSchemaEffect == \A i \in DOMAIN stmt.ops : stmt.ops[i].kind = "lock"

\* C10 (as stated): every invocation on a statement with no schema effect
\* yields the zero value, all four sets empty, and so does a repetition.
C10_NoSchemaEffectIsZero ==
    NoSchemaEffect =>
        \A i \in DOMAIN results :
            results[i].ok => results[i].value = DefaultInspectedStatement

\* C10 (amended): every invocation on a statement with no schema effect, the
\* first one and each repetition, yields added_objects, removed_objects and
\* rewrites all empty.
C10_NoSchemaEffectNoDiff ==
    NoSchemaEffect =>
        \A i \in DOMAIN results :
            results[i].ok =>
                /\ results[i].value.added_objects = {}
                /\ results[i].value.removed_objects = {}
                /\ results[i].value.rewrites = {}

C10_Witness ==
    /\ NoSchemaEffect
    /\ Len(results) = 2
    /\ results[1].ok
    /\ results[2].ok
    /\ results[1].value.locks # {}
    /\ results[2].value.locks # results[1].value.locks

\* a statement that requests one lock mode on one table and does nothing else
SingleLockStatement ==
    /\ Len(stmt.ops) = 1
    /\ stmt.ops[1].kind = "lock"
    /\ stmt.commit_ops = <<>>

\* C11: for a statement that requests exactly one lock mode m on exactly one
\* pre-existing table t and changes no object, the result returned has
\* locks = {(t, m)} and empty added_objects, removed_objects and rewrites.
C11_SingleLockResult ==
    (pc = "returned" /\ SingleLockStatement) =>
        /\ LastResult.locks =
               { [table |-> [name |-> stmt.ops[1].table],
                  lock |-> [variant |-> stmt.ops[1].mode, text |-> ""]] }
        /\ LastResult.added_objects = {}
        /\ LastResult.removed_objects = {}
        /\ LastResult.rewrites = {}

C11_Witness ==
    /\ pc = "returned"
    /\ SingleLockStatement
    /\ stmt.ops[1].mode = "AccessShareLock"
    /\ Cardinality(all_tables) = 2

\* the tables that the statement drops
DroppedTables ==
    { stmt.ops[i].table : i \in { j \in DOMAIN stmt.ops : stmt.ops[j].kind = "drop" } }

\* a statement that drops tables and otherwise only requests locks
DropStatement ==
    /\ DroppedTables # {}
    /\ \A i \in DOMAIN stmt.ops : stmt.ops[i].kind \in {"drop", "lock"}

\* C12: for a statement that drops a pre-existing table t, the result returned
\* has a lock on t in locks, has Table(t) and every column and index of t in
\* removed_objects, and has empty added_objects and rewrites.
C12_DropTableResult ==
    (pc = "returned" /\ DropStatement) =>
        /\ \A t \in DroppedTables :
               /\ \E l \in LastResult.locks : l.table = TableObject(t)
               /\ { o \in initial_objects : o.table = TableObject(t) }
                      \subseteq LastResult.removed_objects
               /\ \E o \in LastResult.removed_objects : o.kind = "Column"
               /\ \E o \in LastResult.removed_objects : o.kind = "Index"
               /\ DBTable(t) \in LastResult.removed_objects
        /\ LastResult.added_objects = {}
        /\ LastResult.rewrites = {}

C12_Witness ==
    /\ pc = "returned"
    /\ DropStatement
    /\ Cardinality(all_tables) = 2
    /\ Cardinality(LastResult.removed_objects) = 3

\* the tables that the statement creates and that the initial snapshot lacks
NewTables ==
    { stmt.ops[i].table : i \in { j \in DOMAIN stmt.ops : stmt.ops[j].kind = "create" } }
        \ { t.name : t \in all_tables }

\* C13: for a statement that creates a new table n, no lock whose table is n
\* is ever detected, although the Executor holds a lock on n while it is
\* blocked on another table, and the result returned has Table(n) in
\* added_objects and no lock on n in locks.
C13_CreatedTableAddedNotLocked ==
    pc \notin {"start", "start_nodes"} =>
        \A n \in NewTables :
            /\ \A l \in all_detected_locks : l.table # TableObject(n)
            /\ pc = "returned" =>
                   /\ DBTable(n) \in LastResult.added_objects
                   /\ \A l \in LastResult.locks : l.table # TableObject(n)

C13_Witness ==
    /\ pc = "terminate"
    /\ all_detected_locks # {}
    /\ \E l \in executor.granted : l.table \in NewTables
    /\ executor.waiting # {}

\* the pre-existing tables that the statement rewrites: it alters a column
\* type of the table and neither drops nor creates it
RewrittenTables ==
    { stmt.ops[i].table :
        i \in { j \in DOMAIN stmt.ops : stmt.ops[j].kind = "alter_type" } }
        \ { stmt.ops[i].table :
              i \in { j \in DOMAIN stmt.ops : stmt.ops[j].kind \in {"drop", "create"} } }

\* the pre-existing tables on which the statement or its COMMIT requests a lock
LockedTables == { r[1] : r \in RequestedPairs }

\* C14: for a statement that rewrites a pre-existing table t, the result
\* returned has t in locks with the mode the rewrite requested
\* (AccessExclusiveLock) and in rewrites, and every other table the statement
\* locks is in locks as well.
C14_RewriteLockedAndReported ==
    (pc = "returned" /\ RewrittenTables # {}) =>
        /\ \A t \in RewrittenTables :
               /\ TableLock(t, [variant |-> "AccessExclusiveLock", text |-> ""])
                      \in LastResult.locks
               /\ DBTable(t) \in LastResult.rewrites
        /\ \A u \in LockedTables : \E l \in LastResult.locks : l.table = TableObject(u)

\* C15: when the statement raises an error, check_statement_for_locks reports
\* neither blocked nor completed: inspect_statement fails in that iteration,
\* returns no InspectedStatement, and the locks detected in earlier iterations
\* are not returned.
C15_StatementErrorFailsCall ==
    [][ (pc \in {"stmt", "commit"} /\ executor.phase = "error" /\ pc' # pc) =>
            /\ pc' = "failed"
            /\ Len(results') = Len(results) + 1
            /\ ~results'[Len(results')].ok
            /\ results'[Len(results')].value.locks = {} ]_vars

C15_Witness ==
    /\ pc = "failed"
    /\ iterations = 2
    /\ all_detected_locks # {}
    /\ ~results[Len(results)].ok
    /\ zombies = {}

\* C16: when inspect_statement fails, no InspectedStatement is returned and no
\* session the call created lives on: no lock of a Locker or an Executor is
\* still held or awaited and no transaction of theirs is still open.
C16_FailureLeavesNoSession ==
    pc = "failed" =>
        /\ ~results[Len(results)].ok
        /\ locker = NoLocker
        /\ executor = NoBackend
        /\ zombies = {}
        /\ pg_locks = {}

\* C17: inspect_statement is deterministic: applied to the same statement on
\* copies of the same pristine schema, the calls that return yield equal
\* InspectedStatement values, whatever the scheduling of the sessions.
C17_Deterministic ==
    \A i, j \in DOMAIN results :
        (results[i].ok /\ results[j].ok) => results[i].value = results[j].value

\* C18: when check_statement_for_locks finds the statement blocked it returns
\* true and no COMMIT is issued: a backend is in its COMMIT only after the
\* oracle saw its statement complete, and the committed schema changes only
\* by the COMMIT of such a backend, so the effects of a blocked statement are
\* visible to no other session while the Executor lives or after it is dropped.
C18_BlockedStatementNotCommitted ==
    [][ /\ (pc = "stmt" /\ pc' = "list") => executor'.phase = "stmt"
        /\ \A b2 \in zombies' \cup {executor'} :
               b2.phase \in {"commit", "committed"} =>
                   \E b \in zombies \cup {executor} :
                       /\ b.pid = b2.pid
                       /\ \/ b.phase \in {"commit", "committed"}
                          \/ b = executor /\ pc = "stmt" /\ pc' = "commit"
        /\ catalog' # catalog =>
               \/ executor.phase = "commit" /\ executor'.phase = "committed"
               \/ \E z \in zombies : z.phase = "commit" /\ z \notin zombies' ]_vars

C18_Witness ==
    /\ pc = "terminate"
    /\ executor.phase = "stmt"
    /\ executor.pos = 2
    /\ stmt.ops[1].kind = "drop"
    /\ stmt.ops[1].table \in DOMAIN catalog

\* C19: when check_statement_for_locks returns false, the statement and the
\* COMMIT have both completed and the statement's effects are committed: a
\* fresh session finds the dropped tables gone, the created tables present
\* and the rewritten tables with their new column type.
C19_UnblockedStatementCommitted ==
    pc = "post" =>
        /\ \A t \in DroppedTables :
               (\A i \in DOMAIN stmt.ops :
                    stmt.ops[i].table = t => stmt.ops[i].kind # "create")
                   => t \notin DOMAIN catalog
        /\ NewTables \subseteq DOMAIN catalog
        /\ \A t \in RewrittenTables :
               t \in DOMAIN catalog /\ catalog[t].data_type = <<"bigint">>

C19_Witness ==
    /\ pc = "post"
    /\ DroppedTables # {}
    /\ NewTables # {}
    /\ DroppedTables \cap DOMAIN catalog = {}

\* the pre-existing tables on which the statement itself requests a lock
StatementTables ==
    { stmt.ops[i].table :
        i \in { j \in DOMAIN stmt.ops :
                  /\ stmt.ops[j].kind # "create"
                  /\ stmt.ops[j].table \notin FreshTables(stmt.ops, j - 1) } }

\* the pre-existing tables on which the COMMIT requests a lock
CommitTables ==
    { stmt.commit_ops[i].table :
        i \in { j \in DOMAIN stmt.commit_ops :
                  stmt.commit_ops[j].table \notin FreshTables(stmt.ops, Len(stmt.ops)) } }

\* C20: detect_if_statement_blocks does not return false for a statement (or
\* a COMMIT) that requests a lock, of any mode, on a table the Locker holds in
\* ACCESS EXCLUSIVE mode, and never returns false while the backend waits for
\* a lock; it returns true only for a backend that waits, and a backend comes
\* to wait only when another session holds a conflicting lock.
C20_BlockedIffConflictingLock ==
    [][ /\ (pc = "stmt" /\ pc' = "commit") =>
               /\ executor.waiting = {}
               /\ \A t \in StatementTables : TableObject(t) \notin locker.held
        /\ (pc = "commit" /\ pc' = "post") =>
               /\ executor.waiting = {}
               /\ \A t \in CommitTables : TableObject(t) \notin locker.held
        /\ (pc \in {"stmt", "commit"} /\ pc' = "list") => executor.waiting # {}
        /\ (executor.waiting = {} /\ executor'.waiting # {}) =>
               \A req \in executor'.waiting :
                   \E r \in pg_locks :
                       /\ r.pid # executor.pid
                       /\ r.granted
                       /\ r.relation = req.table
                       /\ r.mode \in ConflictsWith(req.mode) ]_vars

C20_Witness ==
    /\ pc = "list"
    /\ \E req \in executor.waiting :
           /\ req.mode = "AccessShareLock"
           /\ TableObject(req.table) \in locker.held

\* C21: when an outside session holds a competing lock on a table while
\* inspect_statement runs and releases it, the locks set the call returns
\* equals the locks set of a baseline call on the same statement and the same
\* schema without the outside holder (no cancel request having failed).
C21_SameLocksAsBaseline ==
    (/\ Len(results) = 2
     /\ results[1].ok
     /\ results[2].ok
     /\ cancel_failures = 0) =>
        results[1].value.locks = results[2].value.locks

\* the pg_locks rows of connection id p
RowsOf(p) == { r \in pg_locks : r.pid = p }

\* C22: Lock::from maps each of the eight recognized mode names to the variant
\* of that name, never to Unknown, and to_string of the variant gives the name
\* back; every other string maps to Unknown carrying the string verbatim, so
\* a listing has one lock for every lock row, whatever its mode.
C22_LockParsing ==
    [][ new_locks' # new_locks =>
          \E p \in TestPids :
            /\ \A r \in RowsOf(p) :
                 \E l \in new_locks' :
                   /\ l.table.name = regclass_text(r.relation)
                   /\ IF r.mode \in { "AccessShareLock", "RowShareLock", "RowExclusiveLock",
                                      "ShareUpdateExclusiveLock", "ShareLock",
                                      "ShareRowExclusiveLock", "ExclusiveLock",
                                      "AccessExclusiveLock" }
                      THEN /\ l.lock = [variant |-> r.mode, text |-> ""]
                           /\ Lock_to_string(l.lock) = << r.mode >>
                      ELSE l.lock = [variant |-> "Unknown", text |-> r.mode]
            /\ Cardinality(new_locks') = Cardinality(RowsOf(p)) ]_vars

C22_Witness ==
    /\ Cardinality(new_locks) = 2
    /\ \E l \in new_locks : l.lock = [variant |-> "Unknown", text |-> "accesssharelock"]
    /\ \E l \in new_locks : l.lock = [variant |-> "Unknown", text |-> "Unknown"]

\* the initial tables on which a lock has been detected: a detected lock
\* carries the table's name as the server's lock listing prints it
TablesWithDetectedLock ==
    { t \in all_tables :
        \E l \in all_detected_locks : l.table.name = regclass_text(t.name) }

\* C23: in every iteration the tables the Locker locks in ACCESS EXCLUSIVE
\* mode are exactly the initial tables for which no lock has been detected:
\* it never locks a table for which a lock was already detected, and it holds
\* every other initial table before the Executor runs.
C23_LockerLocksUndetectedTables ==
    /\ pc = "locking" => locker.held \cup locker.todo = all_tables \ TablesWithDetectedLock
    /\ pc \in {"stmt", "commit", "list"} =>
           /\ locker.todo = {}
           /\ locker.held = all_tables \ TablesWithDetectedLock

\* the Locker's granted ACCESS EXCLUSIVE row on table t in the lock table
LockerRow(t) ==
    [pid |-> locker.pid, relation |-> t.name, mode |-> "AccessExclusiveLock",
     granted |-> TRUE, fresh |-> FALSE]

\* C24: within an iteration the Locker has been granted all of its table locks
\* before the Executor's session exists and sends the statement, and takes
\* none afterwards; list_connection_locks runs only after the Executor has
\* found the statement or the COMMIT blocked, so never in an iteration whose
\* statement and COMMIT completed.
C24_LockThenExecuteThenList ==
    [][ /\ (executor = NoBackend /\ executor' # NoBackend) =>
               /\ locker.todo = {}
               /\ \A t \in tables_to_lock : LockerRow(t) \in pg_locks
        /\ (executor # NoBackend /\ locker' # locker) => locker' = NoLocker
        /\ (pc # "list" /\ pc' = "list") =>
               /\ pc \in {"stmt", "commit"}
               /\ executor.waiting # {}
        /\ (new_locks' # new_locks \/ all_detected_locks' # all_detected_locks) =>
               \/ pc = "list" /\ pc' = "terminate"
               \/ pc = "terminate" /\ new_locks' = {} /\ UNCHANGED all_detected_locks
        /\ (pc \in {"stmt", "commit"} /\ pc' \in {"commit", "post"}) =>
               UNCHANGED << new_locks, all_detected_locks >> ]_vars

C24_Witness ==
    /\ pc = "terminate"
    /\ new_locks # {}
    /\ Cardinality(locker.held) = 2
    /\ executor.waiting # {}
    /\ executor.phase = "commit"

C26_BlockedUntilDropped ==
    [][ /\ (pc \in {"list", "terminate"} /\ pc' \in {"list", "terminate"}) =>
               executor' = executor
        /\ (pc = "list" /\ pc' = "terminate") =>
               /\ executor.waiting # {}
               /\ executor.phase \in {"stmt", "commit"}
               /\ BackendRows(executor) \subseteq pg_locks ]_vars

\* the table locks of connection id p on committed tables of the schema, each
\* under the table's name and with the mode requested
TableLocksOf(p) ==
    { [table |-> [name |-> r.relation], lock |-> Lock_from(r.mode)] :
        r \in { x \in RowsOf(p) : x.relation \in DOMAIN catalog /\ ~x.fresh } }

\* C27: list_connection_locks(conn_id) returns exactly the table locks that
\* backend conn_id holds or awaits on tables of the schema, each with its
\* mode, and no lock of another backend; for a session that holds only ACCESS
\* EXCLUSIVE on one table it returns exactly that one TableLock.
C27_ListsLocksOfConnection ==
    [][ new_locks' # new_locks =>
            \E p \in TestPids : new_locks' = TableLocksOf(p) ]_vars

\* what a listing of the Executor's locks shows now
ExecutorListing ==
    { [table |-> [name |-> regclass_text(r.relation)],
       lock |-> [variant |-> r.mode, text |-> ""]] :
        r \in { x \in BackendRows(executor) : x.relation \in DOMAIN catalog /\ ~x.fresh } }

\* C28: when the statement completes without blocking and the COMMIT blocks,
\* check_statement_for_locks returns true, the locks then listed for the
\* Executor are added to all_detected_locks, the set that holds the
\* statement-time locks, and the discovery loop begins a further iteration.
C28_CommitTimeLocksDetected ==
    [][ /\ (pc = "commit" /\ pc' # pc /\ executor.waiting # {}) =>
               /\ executor.phase = "commit"
               /\ pc' = "list"
        /\ (pc = "list" /\ pc' # pc) =>
               /\ pc' = "terminate"
               /\ all_detected_locks' = all_detected_locks \cup ExecutorListing
        /\ (pc = "terminate" /\ pc' # pc) =>
               /\ pc' = "loop"
               /\ UNCHANGED << all_detected_locks, results >>
        /\ (pc = "loop" /\ pc' # pc) =>
               /\ pc' = "locking"
               /\ UNCHANGED << all_detected_locks, results >> ]_vars

C28_Witness ==
    /\ pc = "locking"
    /\ iterations = 3
    /\ \E i \in DOMAIN stmt.ops, j \in DOMAIN stmt.commit_ops :
           /\ stmt.ops[i].table # stmt.commit_ops[j].table
           /\ TableLock(stmt.ops[i].table, Lock_from(stmt.ops[i].mode)) \in all_detected_locks
           /\ TableLock(stmt.commit_ops[j].table, Lock_from(stmt.commit_ops[j].mode))
                  \in all_detected_locks

\* the message the step reads is not a notice about a lock wait
ReadsOtherMessage ==
    /\ last_message' # last_message
    /\ last_message' # [kind |-> "None", text |-> <<>>]
    /\ ~(/\ last_message'.kind = "Notice"
         /\ \E i \in 1..(Len(last_message'.text) - 2) :
                /\ last_message'.text[i] = "still"
                /\ last_message'.text[i + 1] = "waiting"
                /\ last_message'.text[i + 2] = "for")

\* C29: while detect_if_statement_blocks waits, a message that is not a Notice
\* containing "still waiting for" is ignored, however many arrive: it changes
\* nothing but the message last read, so it neither makes the call return true
\* nor fail, and when the statement (or the COMMIT) then completes the call
\* still returns false.
C29_OtherMessagesIgnored ==
    [][ /\ ReadsOtherMessage =>
               UNCHANGED << pc, results, executor, locker, all_detected_locks,
                            new_locks, catalog, zombies, dropped >>
        /\ (pc = "stmt" /\ executor.phase = "idle" /\ pc' # pc) => pc' = "commit"
        /\ (pc = "commit" /\ executor.phase = "committed" /\ pc' # pc) => pc' = "post" ]_vars

C29_Witness ==
    /\ pc = "post"
    /\ last_message = Notification(<< "still", "waiting", "for" >>)
    /\ all_detected_locks # {}
    /\ stmt.commit_ops # <<>>

\* C30: when the Executor's connection ends before the pending query
\* resolves, during StatementExecutor::new or during
\* detect_if_statement_blocks, the operation fails with the error of the
\* closed session: the statement is reported neither blocked nor completed,
\* no listing follows, and inspect_statement returns that error.
C30_ClosedConnectionFails ==
    [][ /\ (executor.phase # "closed" /\ executor'.phase = "closed") =>
               /\ pc' \in {"new", "stmt", "commit"}
               /\ UNCHANGED << results, all_detected_locks, new_locks >>
        /\ (executor.phase = "closed" /\ (pc' # pc \/ executor' # executor)) =>
               /\ pc' = "failed"
               /\ Len(results') = Len(results) + 1
               /\ ~results'[Len(results')].ok
               /\ results'[Len(results')].error \in
                      { "Connection unexpectedly finished: retrieving connection ID",
                        "Connection unexpectedly finished: executing setup statement",
                        "Connection unexpectedly finished: executing statement",
                        "Reading message from server" }
               /\ (pc = "new") =
                      (results'[Len(results')].error \in
                          { "Connection unexpectedly finished: retrieving connection ID",
                            "Connection unexpectedly finished: executing setup statement" })
               /\ UNCHANGED << all_detected_locks, new_locks, catalog >> ]_vars

C30_Witness ==
    /\ pc = "failed"
    /\ iterations = 2
    /\ all_detected_locks # {}
    /\ results[Len(results)].error = "Connection unexpectedly finished: executing statement"

\* the schema as the initial snapshot of the call shows it
SnapshotCatalog ==
    [cat |-> [n \in { t.name : t \in all_tables } |->
                [file_node |-> 0, data_type |-> <<"integer">>]],
     next |-> 0]

\* run on the schema of the initial snapshot, the statement or its COMMIT
\* raises an error
RaisesOnSnapshot ==
    \/ \E k \in DOMAIN stmt.ops :
           ~Executable(DOMAIN ApplyOps(SnapshotCatalog, stmt.ops, k - 1).cat, stmt.ops[k])
    \/ \E k \in DOMAIN stmt.commit_ops :
           ~Executable(DOMAIN ApplyOps(SnapshotCatalog, stmt.ops, Len(stmt.ops)).cat,
                       stmt.commit_ops[k])

\* C31: a failure of attempt_termination is swallowed: the step returns
\* nothing and the loop goes on to its next iteration; the call fails in
\* check_statement_for_locks only for a statement that raises an error on the
\* schema of the initial snapshot; and two calls on the same statement and the
\* same pristine schema return the same InspectedStatement, whether or not a
\* cancel request failed in one of them.
C31_CancelFailureSwallowed ==
    [][ /\ (pc = "terminate" /\ pc' # pc) =>
               /\ pc' = "loop"
               /\ UNCHANGED << results, all_detected_locks >>
        /\ (pc \in {"stmt", "commit"} /\ pc' = "failed") => RaisesOnSnapshot
        /\ (Len(results') = 2 /\ results'[1].ok /\ results'[2].ok) =>
               results'[1].value = results'[2].value ]_vars

Elements(order) == { order[i] : i \in DOMAIN order }

\* C33: the order in which lock_tables takes its locks is deterministic for a
\* call, so a call repeated on the same tables locks them in the same order;
\* and the order does not affect the outcome: calls on the same statement and
\* the same pristine schema return the same InspectedStatement, whatever order
\* each of them locked the tables in.
C33_LockOrderDeterministicAndIrrelevant ==
    [][ /\ (/\ pc = "start"
            /\ pc' = "start_nodes"
            /\ Elements(table_order) = Elements(table_order')) =>
               table_order' = table_order
        /\ (Len(results') = 2 /\ results'[1].ok /\ results'[2].ok) =>
               results'[1].value = results'[2].value ]_vars

\* the tables of the committed schema that the initial snapshot does not have
TablesCreatedSince ==
    { TableObject(n) : n \in DOMAIN catalog } \ { o.table : o \in initial_objects }

\* C34: the initial object snapshot, the initial file-node snapshot and
\* all_tables are computed once before the discovery loop and no iteration
\* changes them, whatever happens to the schema; a Locker locks tables of
\* all_tables only, so a table that the statement created is never added to
\* all_tables and never locked by a Locker.
C34_SnapshotsComputedOnce ==
    [][ /\ pc # "start" =>
               /\ initial_objects' = initial_objects
               /\ all_tables' = all_tables
        /\ pc \notin {"start", "start_nodes"} =>
               initial_table_file_nodes' = initial_table_file_nodes
        /\ locker'.held \cup locker'.todo \subseteq all_tables'
        /\ \A t \in locker'.held \cup locker'.todo :
               /\ [kind |-> "Table", table |-> t, name |-> t.name, data_type |-> <<>>]
                      \in initial_objects'
               /\ t \notin TablesCreatedSince' ]_vars

C34_Witness ==
    /\ pc = "stmt"
    /\ iterations >= 2
    /\ locker.held # {}
    /\ TablesCreatedSince # {}
    /\ catalog[NewTableName].file_node \notin
           { initial_table_file_nodes[o] : o \in DOMAIN initial_table_file_nodes }

\* C35: at the start of every iteration the committed schema is the one the
\* initial snapshot shows; the committed schema changes only when the COMMIT
\* of the Executor of the final, unblocked iteration completes, so no blocked
\* iteration's transaction is ever committed, also after a failed cancel; and
\* when the loop is left the statement's effects are committed, once.
C35_CommittedOnceInFinalIteration ==
    [][ /\ pc' = "loop" => list_objects(catalog') = initial_objects'
        /\ catalog' # catalog =>
               /\ pc = "commit"
               /\ pc' = "commit"
               /\ executor.phase = "commit"
               /\ executor'.phase = "committed"
               /\ list_objects(catalog) = initial_objects
        /\ (pc = "commit" /\ pc' = "post") =>
               /\ executor.phase = "committed"
               /\ DOMAIN catalog =
                      DOMAIN ApplyOps(SnapshotCatalog, stmt.ops, Len(stmt.ops)).cat ]_vars

\* C36: every TableLock that enters the detected set is, when it is listed, a
\* lock row of that iteration's Executor backend, granted or awaited, for a
\* lock that the statement or its COMMIT requests, the table under the name
\* the listing prints; result.locks is that set.  So the ACCESS EXCLUSIVE lock
\* a Locker holds on a table is in the set only if the statement requests
\* that mode on that table.
C36_DetectedLocksWereRequested ==
    [][ /\ \A l \in all_detected_locks' \ all_detected_locks :
               /\ pc = "list"
               /\ \E r \in BackendRows(executor) :
                      /\ r.pid = executor.pid
                      /\ l.table = [name |-> regclass_text(r.relation)]
                      /\ l.lock = [variant |-> r.mode, text |-> ""]
                      /\ << r.relation, r.mode >> \in RequestedPairs
        /\ (pc # "returned" /\ pc' = "returned") =>
               results'[Len(results')].value.locks = all_detected_locks
        /\ \A t \in locker.held :
               [table |-> [name |-> regclass_text(t.name)],
                lock |-> [variant |-> "AccessExclusiveLock", text |-> ""]]
                       \in all_detected_locks'
                   => << t.name, "AccessExclusiveLock" >> \in RequestedPairs ]_vars

C36_Witness ==
    /\ pc = "returned"
    /\ Cardinality(all_tables) = 2
    /\ \E l \in LastResult.locks : l.lock.variant = "AccessShareLock"
    /\ \A l \in LastResult.locks : l.lock.variant # "AccessExclusiveLock"
    /\ Cardinality(LastResult.locks) = 2

\* the sessions the oracle has created that wait for a lock within a cycle of
\* waiting sessions
DeadlockedSessions ==
    { b.pid : b \in { x \in zombies \cup {executor} : x.waiting # {} /\ InDeadlock(x) } }
      \cup (IF pc = "locking" /\ locker.todo # {} /\ LockTableInDeadlock(next_table)
            THEN {locker.pid}
            ELSE {})

\* C37: the sessions of the protocol never deadlock: while the Locker takes
\* its locks the iteration's Executor does not exist yet, and once the
\* Executor exists the Locker requests no further lock, so the Locker never
\* waits for its iteration's Executor; and no Locker, Executor or abandoned
\* Executor backend ever waits in a cycle of waiting sessions, so the Locker
\* of an iteration does not wait forever for the abandoned backend of the
\* iteration before.
C37_NoDeadlockBetweenOwnSessions ==
    /\ pc = "locking" => executor.pid = 0
    /\ executor.pid # 0 => locker.todo = {}
    /\ executor.pid \notin LockerWaitsFor
    /\ DeadlockedSessions = {}

\* C38: the detected set changes only when a blocked iteration lists the
\* Executor's locks, and then by taking in that listing, so it never loses an
\* element and it is the union of the listings of the blocked iterations; the
\* final iteration, in which the statement and the COMMIT complete, and the
\* steps after the loop leave it alone, and it is returned as result.locks.
C38_LocksAreUnionOfListings ==
    [][ /\ all_detected_locks \subseteq all_detected_locks'
        /\ all_detected_locks' # all_detected_locks =>
               /\ pc = "list"
               /\ pc' = "terminate"
        /\ (pc = "list" /\ pc' = "terminate") =>
               all_detected_locks' = all_detected_locks \cup new_locks'
        /\ pc' \in {"commit", "post", "post_nodes", "returned"} =>
               all_detected_locks' = all_detected_locks
        /\ (pc # "returned" /\ pc' = "returned") =>
               results'[Len(results')].value.locks = all_detected_locks ]_vars

C38_Witness ==
    /\ pc = "returned"
    /\ iterations = 2
    /\ cancel_failures = 0
    /\ Cardinality(LastResult.locks) = 1
    /\ \E i \in DOMAIN stmt.ops :
           /\ stmt.ops[i].kind = "lock"
           /\ TableLock(stmt.ops[i].table, Lock_from(stmt.ops[i].mode)) \notin LastResult.locks

=============================================================================
